---- MODULE Spec2Model ----
(***************************************************************************)
(* Ledger extraction: page classification -> row extraction -> confidence  *)
(* scoring, the per-document pipeline and the cached transcription batch.  *)
(*                                                                         *)
(* The specifications share the operators that model the code:             *)
(*   SpecScorer  the two scoring functions applied to one LedgerRow        *)
(*   SpecPage, SpecClassify                                                *)
(*               process_document on a one-page document, one of the two   *)
(*               services answering from a wide set of responses           *)
(*   SpecDoc     process_document on a dict of pages inserted in any order *)
(*   Spec        the batch run (transcription cache, documents, pages),    *)
(*               the services answering from a small set of responses      *)
(***************************************************************************)
EXTENDS Integers, Sequences, FiniteSets, TLC

(***************************************************************************)
(* Python values                                                           *)
(***************************************************************************)

\* A float is a fixed-point number in units of 1/One, or NaN.  One = 600 makes
\* every product and the mean of six exact for inputs that are multiples of 0.1:
\* weight * score / One and sum / 6 are then integers.
One == 600

Tenth == One \div 10

F(v) == [nan |-> FALSE, v |-> v]

NaN == [nan |-> TRUE, v |-> 0]

\* t tenths as a float
T(t) == F(t * Tenth)

\* IEEE arithmetic: NaN absorbs every operation, every comparison with NaN is false.
FAdd(a, b) == IF a.nan \/ b.nan THEN NaN ELSE F(a.v + b.v)

FSub(a, b) == IF a.nan \/ b.nan THEN NaN ELSE F(a.v - b.v)

FMul(a, b) == IF a.nan \/ b.nan THEN NaN ELSE F((a.v * b.v) \div One)

FDivInt(a, n) == IF a.nan THEN NaN ELSE F(a.v \div n)

FLt(a, b) == ~a.nan /\ ~b.nan /\ a.v < b.v

\* Python's min(a, b) and max(a, b): the first argument unless the second is smaller / larger
PyMin(a, b) == IF FLt(b, a) THEN b ELSE a

PyMax(a, b) == IF FLt(a, b) THEN b ELSE a

\* A dynamically typed value of a monetary field: None, a number, or a value that is
\* no number (a JSON string, list or object), which Python refuses to order against int.
PyNone == [t |-> "none", n |-> 0]

PyInt(n) == [t |-> "int", n |-> n]

PyStr == [t |-> "str", n |-> 0]

\* Strings whose characters matter are sequences of one-character strings.
IsSpace(c) == c \in {" ", "\n", "\t"}

SetMin(S) == CHOOSE x \in S : \A y \in S : x <= y

SetMax(S) == CHOOSE x \in S : \A y \in S : y <= x

\* str.strip()
Strip(s) ==
    LET keep == {i \in 1..Len(s) : ~IsSpace(s[i])}
    IN  IF keep = {} THEN <<>> ELSE SubSeq(s, SetMin(keep), SetMax(keep))

(***************************************************************************)
(* schema.py                                                               *)
(***************************************************************************)

PageTypes == {"Full_Balance_Sheet", "Sectional_List", "Unknown"}

PageMetadata(doc_id, page_id, page_type, overview) ==
    [doc_id |-> doc_id, page_id |-> page_id, page_type |-> page_type,
     financial_structure_overview |-> overview]

(***************************************************************************)
(* JSON values of a service response.  A field of a response object is     *)
(* absent, null, or a value; "bad" is a value the conversion applied to    *)
(* the field rejects (int("x"), float("x"), float(None)).                  *)
(***************************************************************************)

JAbsent == [t |-> "absent", n |-> 0]

JNull == [t |-> "null", n |-> 0]

JNum(n) == [t |-> "num", n |-> n]

JNaN == [t |-> "nan", n |-> 0]

JBad == [t |-> "bad", n |-> 0]

\* a string-valued field
SAbsent(empty) == [t |-> "absent", s |-> empty]

SNull(empty) == [t |-> "null", s |-> empty]

SVal(s) == [t |-> "str", s |-> s]

(***************************************************************************)
(* scorer.py                                                               *)
(***************************************************************************)

TransactionTypes == {"Debit", "Credit", "Unknown"}

\* The comparisons of lines 35, 40 and 45 raise TypeError on a value that is no number.
compute_rule_based_confidence_raises(r, typical_max_pounds) ==
    \/ r.shillings.t = "str"
    \/ r.pence.t = "str"
    \/ typical_max_pounds.t # "none" /\ r.pounds.t = "str"

\* Mutant: the short-description check is an `if`, not an `elif`, so an empty
\* description is penalised twice.
compute_rule_based_confidence_if_not_elif(r, typical_max_pounds) ==
    LET description == Strip(r.description)
        s0 == IF Len(description) = 0 THEN One - 4 * Tenth ELSE One
        s1 == IF Len(description) < 3 THEN s0 - 2 * Tenth ELSE s0
        s2 == IF r.shillings.t # "none" /\ ~(0 <= r.shillings.n /\ r.shillings.n <= 19)
              THEN s1 - 2 * Tenth ELSE s1
        s3 == IF r.pence.t # "none" /\ ~(0 <= r.pence.n /\ r.pence.n <= 11)
              THEN s2 - 2 * Tenth ELSE s2
        s4 == IF typical_max_pounds.t # "none" /\ r.pounds.t # "none"
                 /\ r.pounds.n > typical_max_pounds.n * 3
              THEN s3 - 2 * Tenth ELSE s3
        s5 == IF r.transaction_type \notin TransactionTypes THEN s4 - 3 * Tenth ELSE s4
        s6 == IF r.pounds.t = "none" /\ r.shillings.t = "none" /\ r.pence.t = "none"
              THEN s5 - 3 * Tenth ELSE s5
    IN  IF s6 < 0 THEN F(0) ELSE IF s6 > One THEN F(One) ELSE F(s6)

compute_rule_based_confidence(r, typical_max_pounds) ==
    LET description == Strip(r.description)
        s0 == One
        \* 1) description length check
        s1 == IF Len(description) = 0 THEN s0 - 4 * Tenth
              ELSE IF Len(description) < 3 THEN s0 - 2 * Tenth
              ELSE s0
        \* 2a) shillings 0..19
        s2 == IF r.shillings.t # "none" /\ ~(0 <= r.shillings.n /\ r.shillings.n <= 19)
              THEN s1 - 2 * Tenth ELSE s1
        \* 2b) pence 0..11
        s3 == IF r.pence.t # "none" /\ ~(0 <= r.pence.n /\ r.pence.n <= 11)
              THEN s2 - 2 * Tenth ELSE s2
        \* 2c) pounds against three times the typical maximum
        s4 == IF typical_max_pounds.t # "none" /\ r.pounds.t # "none"
                 /\ r.pounds.n > typical_max_pounds.n * 3
              THEN s3 - 2 * Tenth ELSE s3
        \* 3) transaction type
        s5 == IF r.transaction_type \notin TransactionTypes THEN s4 - 3 * Tenth ELSE s4
        \* 4) no monetary field at all
        s6 == IF r.pounds.t = "none" /\ r.shillings.t = "none" /\ r.pence.t = "none"
              THEN s5 - 3 * Tenth ELSE s5
    IN  \* clamp to [0.0, 1.0]
        IF s6 < 0 THEN F(0) ELSE IF s6 > One THEN F(One) ELSE F(s6)

\* sum(model_confs) / len(model_confs), lines 86-99
model_conf_avg(r) ==
    FDivInt(
        FAdd(FAdd(FAdd(FAdd(FAdd(FAdd(F(0), r.model_conf_description),
             r.model_conf_transaction_type), r.model_conf_pounds),
             r.model_conf_shillings), r.model_conf_pence), r.model_conf_pence_fraction),
        6)

\* Mutant: the two weights are swapped.
compute_row_confidence_swapped(r, rule_weight, typical_max_pounds) ==
    LET rule_conf == compute_rule_based_confidence(r, typical_max_pounds)
        rw == PyMax(F(0), PyMin(F(One), rule_weight))
        comb == FAdd(FMul(FSub(F(One), rw), rule_conf), FMul(rw, model_conf_avg(r)))
    IN  IF FLt(comb, F(0)) THEN F(0)
        ELSE IF FLt(F(One), comb) THEN F(One)
        ELSE comb

compute_row_confidence(r, rule_weight, typical_max_pounds) ==
    LET rule_conf == compute_rule_based_confidence(r, typical_max_pounds)
        rw == PyMax(F(0), PyMin(F(One), rule_weight))
        comb == FAdd(FMul(rw, rule_conf), FMul(FSub(F(One), rw), model_conf_avg(r)))
    IN  IF FLt(comb, F(0)) THEN F(0)
        ELSE IF FLt(F(One), comb) THEN F(One)
        ELSE comb

(***************************************************************************)
(* extractor.py                                                            *)
(***************************************************************************)

\* "Dummy balance entry inferred from summary-like page text."
DummyBalanceDescription ==
    <<"D", "u", "m", "m", "y", " ", "b", "a", "l", "a", "n", "c", "e", " ", "e", "n", "t",
      "r", "y", " ", "i", "n", "f", "e", "r", "r", "e", "d", " ", "f", "r", "o", "m", " ",
      "s", "u", "m", "m", "a", "r", "y", "-", "l", "i", "k", "e", " ", "p", "a", "g", "e",
      " ", "t", "e", "x", "t", ".">>

\* "Dummy individual transaction inferred from list-like page text."
DummyListDescription ==
    <<"D", "u", "m", "m", "y", " ", "i", "n", "d", "i", "v", "i", "d", "u", "a", "l", " ",
      "t", "r", "a", "n", "s", "a", "c", "t", "i", "o", "n", " ", "i", "n", "f", "e", "r",
      "r", "e", "d", " ", "f", "r", "o", "m", " ", "l", "i", "s", "t", "-", "l", "i", "k",
      "e", " ", "p", "a", "g", "e", " ", "t", "e", "x", "t", ".">>

\* int(r.get(key, default)): the default is an int already
IntField(j, default) == IF j.t = "absent" THEN default ELSE j.n

IntFieldRaises(j) == j.t \in {"bad", "null"}

\* float(r.get(key, 0.0))
FloatField(j) ==
    IF j.t = "absent" THEN F(0) ELSE IF j.t = "nan" THEN NaN ELSE F(j.n)

FloatFieldRaises(j) == j.t \in {"bad", "null"}

\* r.get(key): None when absent or null, the raw value otherwise
RawField(j) ==
    IF j.t \in {"absent", "null"} THEN PyNone
    ELSE IF j.t = "num" THEN PyInt(j.n)
    ELSE PyStr

\* the body of the loop of extract_page_with_llm for element r at position i
ParseRowRaises(r) ==
    \/ ~r.is_object
    \/ IntFieldRaises(r.page_id)
    \/ IntFieldRaises(r.row_id)
    \/ FloatFieldRaises(r.model_conf_description)
    \/ FloatFieldRaises(r.model_conf_transaction_type)
    \/ FloatFieldRaises(r.model_conf_pounds)
    \/ FloatFieldRaises(r.model_conf_shillings)
    \/ FloatFieldRaises(r.model_conf_pence)
    \/ FloatFieldRaises(r.model_conf_pence_fraction)

ParseRow(i, r, page_meta) ==
    [doc_id |-> IF r.doc_id.t = "absent" THEN page_meta.doc_id ELSE r.doc_id.s,
     page_id |-> IntField(r.page_id, page_meta.page_id),
     row_id |-> IntField(r.row_id, i),
     description |-> IF r.description.t = "str" THEN r.description.s ELSE <<>>,
     transaction_type |->
        IF r.transaction_type.t = "str" /\ r.transaction_type.s \in TransactionTypes
        THEN r.transaction_type.s ELSE "Unknown",
     pounds |-> RawField(r.pounds),
     shillings |-> RawField(r.shillings),
     pence |-> RawField(r.pence),
     pence_fraction |-> IF r.pence_fraction.t = "str" THEN r.pence_fraction.s ELSE "None",
     model_conf_description |-> FloatField(r.model_conf_description),
     model_conf_transaction_type |-> FloatField(r.model_conf_transaction_type),
     model_conf_pounds |-> FloatField(r.model_conf_pounds),
     model_conf_shillings |-> FloatField(r.model_conf_shillings),
     model_conf_pence |-> FloatField(r.model_conf_pence),
     model_conf_pence_fraction |-> FloatField(r.model_conf_pence_fraction),
     rule_based_confidence |-> F(0),
     row_confidence |-> F(0)]

\* The service's answer to one request is one of:
\*   error       the request raises
\*   no_content  message.content is None
\*   bad_json    json.loads raises
\*   not_object  the JSON value is no object, so data.get raises
\*   object      a JSON object
\* and for an object, `rows` is absent, a JSON list, an empty non-list iterable
\* ("" or {}), or another value, which enumerate() or r.get() rejects.
extract_page_with_llm(page_meta, response) ==
    IF response.kind # "object" THEN [raised |-> TRUE, rows |-> <<>>]
    ELSE IF response.rows.t \in {"absent", "empty_iterable"} THEN [raised |-> FALSE, rows |-> <<>>]
    ELSE IF response.rows.t # "list" THEN [raised |-> TRUE, rows |-> <<>>]
    ELSE LET items == response.rows.items
         IN  IF \E k \in 1..Len(items) : ParseRowRaises(items[k])
             THEN [raised |-> TRUE, rows |-> <<>>]
             ELSE [raised |-> FALSE,
                   rows |-> [k \in 1..Len(items) |-> ParseRow(k - 1, items[k], page_meta)]]

dummy_row(page_meta) ==
    [doc_id |-> page_meta.doc_id,
     page_id |-> page_meta.page_id,
     row_id |-> 0,
     description |-> IF page_meta.page_type = "Full_Balance_Sheet"
                     THEN DummyBalanceDescription ELSE DummyListDescription,
     transaction_type |-> "Unknown",
     pounds |-> PyNone,
     shillings |-> PyNone,
     pence |-> PyNone,
     pence_fraction |-> "None",
     model_conf_description |-> T(3),
     model_conf_transaction_type |-> T(2),
     model_conf_pounds |-> F(0),
     model_conf_shillings |-> F(0),
     model_conf_pence |-> F(0),
     model_conf_pence_fraction |-> F(0),
     rule_based_confidence |-> F(0),
     row_confidence |-> F(0)]

\* Mutant: the loop body is skipped, the placeholders stay.
score_row_skipped(r) == r

\* Mutant: the two results are assigned to each other's field.
score_row_crossed(r) ==
    [r EXCEPT !.rule_based_confidence = compute_row_confidence(r, T(4), PyNone),
              !.row_confidence = compute_rule_based_confidence(r, PyNone)]

\* one pass of the scoring loop, lines 203-207
score_row(r) ==
    [r EXCEPT !.rule_based_confidence = compute_rule_based_confidence(r, PyNone),
              !.row_confidence = compute_row_confidence(r, T(4), PyNone)]

\* Mutant: the except branch builds no fallback row.
rows_before_scoring_no_fallback(page_meta, response) ==
    extract_page_with_llm(page_meta, response).rows

\* the rows the scoring loop is run on: the service's, or the one fallback row
rows_before_scoring(page_meta, response) ==
    LET llm == extract_page_with_llm(page_meta, response)
    IN  IF llm.raised THEN <<dummy_row(page_meta)>> ELSE llm.rows

\* extract_page: the scoring loop is outside the try/except, so what it raises
\* leaves extract_page
extract_page(page_meta, response) ==
    LET rows == rows_before_scoring(page_meta, response)
    IN  IF \E k \in 1..Len(rows) : compute_rule_based_confidence_raises(rows[k], PyNone)
        THEN [raised |-> TRUE, rows |-> <<>>]
        ELSE [raised |-> FALSE, rows |-> [k \in 1..Len(rows) |-> score_row(rows[k])]]

(***************************************************************************)
(* classifier.py                                                           *)
(***************************************************************************)

Lower(c) ==
    CASE c = "T" -> "t" [] c = "O" -> "o" [] c = "A" -> "a" [] c = "L" -> "l"
      [] c = "B" -> "b" [] c = "N" -> "n" [] c = "C" -> "c" [] c = "E" -> "e"
      [] c = "S" -> "s" [] c = "U" -> "u"
      [] OTHER -> c

\* str.lower()
LowerStr(s) == [k \in 1..Len(s) |-> Lower(s[k])]

\* sub in s
Contains(sub, s) ==
    \E k \in 0..(Len(s) - Len(sub)) : SubSeq(s, k + 1, k + Len(sub)) = sub

FallbackBalanceOverview ==
    "Fallback: classified as balance/summary page based on presence of 'total' or 'balance'."

FallbackListOverview ==
    "Fallback: classified as list page using simple keyword heuristic."

\* Mutant: page_type_raw is stored unvalidated.
classify_page_with_llm_unvalidated(doc_id, page_id, page_text, response) ==
    IF response.kind # "object" \/ IntFieldRaises(response.page_id)
    THEN [raised |-> TRUE, meta |-> PageMetadata(doc_id, page_id, "Unknown", "")]
    ELSE [raised |-> FALSE,
          meta |-> PageMetadata(
              IF response.doc_id.t = "absent" THEN doc_id ELSE response.doc_id.s,
              IntField(response.page_id, page_id),
              IF response.page_type.t = "str" THEN response.page_type.s ELSE "Unknown",
              IF response.financial_structure_overview.t = "absent" THEN ""
              ELSE response.financial_structure_overview.s)]

classify_page_with_llm(doc_id, page_id, page_text, response) ==
    IF response.kind # "object" \/ IntFieldRaises(response.page_id)
    THEN [raised |-> TRUE, meta |-> PageMetadata(doc_id, page_id, "Unknown", "")]
    ELSE [raised |-> FALSE,
          meta |-> PageMetadata(
              IF response.doc_id.t = "absent" THEN doc_id ELSE response.doc_id.s,
              IntField(response.page_id, page_id),
              IF response.page_type.t = "str" /\ response.page_type.s \in PageTypes
              THEN response.page_type.s ELSE "Unknown",
              IF response.financial_structure_overview.t = "absent" THEN ""
              ELSE response.financial_structure_overview.s)]

classify_page(doc_id, page_id, page_text, response) ==
    LET llm == classify_page_with_llm(doc_id, page_id, page_text, response)
        normalized_text == LowerStr(page_text)
    IN  IF ~llm.raised THEN llm.meta
        ELSE IF Contains(<<"t", "o", "t", "a", "l">>, normalized_text)
                \/ Contains(<<"b", "a", "l", "a", "n", "c", "e">>, normalized_text)
        THEN PageMetadata(doc_id, page_id, "Full_Balance_Sheet", FallbackBalanceOverview)
        ELSE PageMetadata(doc_id, page_id, "Sectional_List", FallbackListOverview)

(***************************************************************************)
(* pipeline.py                                                             *)
(***************************************************************************)

RECURSIVE SortSet(_)
\* sorted(keys)
SortSet(S) == IF S = {} THEN <<>> ELSE <<SetMin(S)>> \o SortSet(S \ {SetMin(S)})

\* A dict page_id -> text is the sequence of its items in insertion order.
Keys(d) == {d[k].page_id : k \in 1..Len(d)}

Lookup(d, page_id) == (CHOOSE k \in 1..Len(d) : d[k].page_id = page_id)

TextOf(d, page_id) == d[Lookup(d, page_id)].text

\* the order in which process_document visits the pages
page_order(d) == SortSet(Keys(d))

(***************************************************************************)
(* State                                                                   *)
(***************************************************************************)

VARIABLES
    \* one call of the scoring functions
    sc_pc,                  \* "idle", "input", "rule_done", "done"
    sc_row,                 \* the LedgerRow scored
    sc_typical_max_pounds,  \* None or an int
    sc_rule_weight,         \* a float
    sc_rule,                \* what compute_rule_based_confidence returned
    sc_combined,            \* what compute_row_confidence returned
    \* one call of process_document
    pc,                     \* "idle", "classify", "extract", "returned", "raised"
    doc_id,                 \* the document processed
    pages,                  \* its pages: dict page_id -> text
    todo,                   \* the page ids the loop has still to visit, in order
    page_meta,              \* the PageMetadata of the page being processed
    all_page_meta,          \* process_document's metadata list
    all_rows,               \* process_document's row list
    classify_response,      \* the classification service's latest answer
    extract_response,       \* the extraction service's latest answer
    extracted,              \* what the latest extract_page call did
    attempts,               \* the calls process_single_page has made, in order
    \* the batch: runs of process_all_pdfs_to_excel over the same data directory
    pdfs,                   \* data/raw: the documents, in sorted order, with their page counts
    cache,                  \* data/interim/*/ocr_text: (doc_id, page_id) -> file
    run_pc,                 \* "stopped", "ocr_loop", "ocr_called", "ocr_opened", "pipeline",
                            \* "exported", "failed"
    runs,                   \* the number of runs started
    doc_queue,              \* the documents the run has still to handle, the current one first
    ocr_todo,               \* the pages ocr_pdf_to_pages_cached has still to visit
    pages_text,             \* the dict ocr_pdf_to_pages_cached is building
    ocr_text,               \* the transcription just received, not yet written
    ocr_calls,              \* (doc_id, page_id) -> calls of the transcription service so far
    run_calls,              \* calls of the transcription service in the current run
    all_pages_meta,         \* the batch's metadata list
    batch_rows              \* the batch's row list (all_rows of process_all_pdfs_to_excel)

scorer_vars == <<sc_pc, sc_row, sc_typical_max_pounds, sc_rule_weight, sc_rule, sc_combined>>

pipeline_vars ==
    <<pc, doc_id, pages, todo, page_meta, all_page_meta, all_rows,
      classify_response, extract_response, extracted, attempts>>

batch_vars ==
    <<pdfs, cache, run_pc, runs, doc_queue, ocr_todo, pages_text, ocr_text, ocr_calls,
      run_calls, all_pages_meta, batch_rows>>

vars == <<scorer_vars, pipeline_vars, batch_vars>>

(***************************************************************************)
(* Inputs                                                                  *)
(***************************************************************************)

MaxDescLen == 3

MaxRows == 2

MaxPages == 2

\* descriptions: every string of letters and blanks up to MaxDescLen characters
Descriptions == UNION {[1..n -> {"a", " "}] : n \in 0..MaxDescLen}

\* six model confidences, in the order of the schema
ConfTuples ==
    {<<F(0), F(0), F(0), F(0), F(0), F(0)>>,
     <<T(3), T(2), F(0), F(0), F(0), F(0)>>,
     <<T(10), T(10), T(10), T(10), T(10), T(10)>>,
     <<T(5), T(6), T(7), T(8), T(9), T(10)>>,
     <<T(-10), T(-10), T(-10), T(-10), T(-10), T(-10)>>,
     <<T(20), T(20), T(20), T(20), T(20), T(20)>>,
     <<NaN, T(5), T(5), T(5), T(5), T(5)>>}

LedgerRow(description, transaction_type, pounds, shillings, pence, mc) ==
    [doc_id |-> "1704",
     page_id |-> 1,
     row_id |-> 0,
     description |-> description,
     transaction_type |-> transaction_type,
     pounds |-> pounds,
     shillings |-> shillings,
     pence |-> pence,
     pence_fraction |-> "None",
     model_conf_description |-> mc[1],
     model_conf_transaction_type |-> mc[2],
     model_conf_pounds |-> mc[3],
     model_conf_shillings |-> mc[4],
     model_conf_pence |-> mc[5],
     model_conf_pence_fraction |-> mc[6],
     rule_based_confidence |-> F(0),
     row_confidence |-> F(0)]

\* the rows handed to the scoring functions: monetary fields are None or integers
ScorerRows ==
    {LedgerRow(d, tx, p, sh, pe, mc) :
        d \in Descriptions,
        tx \in {"Debit", "Unknown", "Bogus"},
        p \in {PyNone, PyInt(5), PyInt(50)},
        sh \in {PyNone, PyInt(5), PyInt(25), PyInt(-1)},
        pe \in {PyNone, PyInt(3), PyInt(12)},
        mc \in ConfTuples}

RuleWeights == {T(-1), T(0), T(4), T(10), T(11)}

TypicalMaxPounds == {PyNone, PyInt(10)}

NoRow == LedgerRow(<<>>, "Unknown", PyNone, PyNone, PyNone,
                   <<F(0), F(0), F(0), F(0), F(0), F(0)>>)

NoMeta == PageMetadata("", 0, "Unknown", "")

NoResponse == [kind |-> "none"]

NoExtract == [called |-> FALSE, raised |-> FALSE, rows |-> <<>>, meta |-> NoMeta]

ScorerIdle ==
    /\ sc_pc = "idle"
    /\ sc_row = NoRow
    /\ sc_typical_max_pounds = PyNone
    /\ sc_rule_weight = T(4)
    /\ sc_rule = F(0)
    /\ sc_combined = F(0)

PipelineIdle ==
    /\ pc = "idle"
    /\ doc_id = ""
    /\ pages = <<>>
    /\ todo = <<>>
    /\ page_meta = NoMeta
    /\ all_page_meta = <<>>
    /\ all_rows = <<>>
    /\ classify_response = NoResponse
    /\ extract_response = NoResponse
    /\ extracted = NoExtract
    /\ attempts = <<>>

BatchIdle ==
    /\ pdfs = <<>>
    /\ cache = <<>>
    /\ run_pc = "stopped"
    /\ runs = 0
    /\ doc_queue = <<>>
    /\ ocr_todo = <<>>
    /\ pages_text = <<>>
    /\ ocr_text = <<>>
    /\ ocr_calls = <<>>
    /\ run_calls = 0
    /\ all_pages_meta = <<>>
    /\ batch_rows = <<>>

(***************************************************************************)
(* SpecScorer: compute_rule_based_confidence, then compute_row_confidence, *)
(* on one row                                                              *)
(***************************************************************************)

InitScorer ==
    /\ sc_pc = "input"
    /\ sc_row \in ScorerRows
    /\ sc_typical_max_pounds \in TypicalMaxPounds
    /\ sc_rule_weight \in RuleWeights
    /\ sc_rule = F(0)
    /\ sc_combined = F(0)
    /\ PipelineIdle
    /\ BatchIdle

CallRuleBased ==
    /\ sc_pc = "input"
    /\ sc_rule' = compute_rule_based_confidence(sc_row, sc_typical_max_pounds)
    /\ sc_pc' = "rule_done"
    /\ UNCHANGED <<sc_row, sc_typical_max_pounds, sc_rule_weight, sc_combined>>
    /\ UNCHANGED <<pipeline_vars, batch_vars>>

CallRowConfidence ==
    /\ sc_pc = "rule_done"
    /\ sc_combined' = compute_row_confidence(sc_row, sc_rule_weight, sc_typical_max_pounds)
    /\ sc_pc' = "done"
    /\ UNCHANGED <<sc_row, sc_typical_max_pounds, sc_rule_weight, sc_rule>>
    /\ UNCHANGED <<pipeline_vars, batch_vars>>

NextScorer == CallRuleBased \/ CallRowConfidence

SpecScorer == InitScorer /\ [][NextScorer]_vars

(***************************************************************************)
(* Service responses                                                       *)
(***************************************************************************)

RawRow(doc, page, rowid, description, tx, pounds, shillings, pence, mc, rb) ==
    [is_object |-> TRUE,
     doc_id |-> doc,
     page_id |-> page,
     row_id |-> rowid,
     description |-> description,
     transaction_type |-> tx,
     pounds |-> pounds,
     shillings |-> shillings,
     pence |-> pence,
     pence_fraction |-> SAbsent(""),
     model_conf_description |-> mc[1],
     model_conf_transaction_type |-> mc[2],
     model_conf_pounds |-> mc[3],
     model_conf_shillings |-> mc[4],
     model_conf_pence |-> mc[5],
     model_conf_pence_fraction |-> mc[6],
     rule_based_confidence |-> rb,
     row_confidence |-> rb]

AllAbsent == <<JAbsent, JAbsent, JAbsent, JAbsent, JAbsent, JAbsent>>

\* the row object {}
EmptyRaw ==
    RawRow(SAbsent(""), JAbsent, JAbsent, SAbsent(<<>>), SAbsent(""),
           JAbsent, JAbsent, JAbsent, AllAbsent, JAbsent)

\* an element of `rows` that is no object
NotAnObject == [EmptyRaw EXCEPT !.is_object = FALSE]

\* the six model confidences as the service reports them
RawConfTuples ==
    {AllAbsent,
     <<JNum(5 * Tenth), JNum(5 * Tenth), JNum(5 * Tenth),
       JNum(5 * Tenth), JNum(5 * Tenth), JNum(5 * Tenth)>>,
     <<JNum(10 * Tenth), JNum(10 * Tenth), JNum(10 * Tenth),
       JNum(10 * Tenth), JNum(10 * Tenth), JNum(10 * Tenth)>>,
     <<JNum(-10 * Tenth), JNum(-10 * Tenth), JNum(-10 * Tenth),
       JNum(-10 * Tenth), JNum(-10 * Tenth), JNum(-10 * Tenth)>>,
     <<JNum(-10 * Tenth), JNum(4 * Tenth), JAbsent, JAbsent, JAbsent, JAbsent>>,
     <<JNum(20 * Tenth), JNum(20 * Tenth), JNum(20 * Tenth),
       JNum(20 * Tenth), JNum(20 * Tenth), JNum(20 * Tenth)>>,
     <<JNaN, JNum(5 * Tenth), JNum(5 * Tenth), JNum(5 * Tenth), JNum(5 * Tenth),
       JNum(5 * Tenth)>>,
     <<JNum(5 * Tenth), JBad, JAbsent, JAbsent, JAbsent, JAbsent>>,
     <<JAbsent, JAbsent, JAbsent, JAbsent, JAbsent, JNull>>}

\* rows that vary in what the scoring reads
ScoringRaw ==
    {RawRow(SAbsent(""), JAbsent, JAbsent, d, tx, p, sh, pe, mc, rb) :
        d \in {SAbsent(<<>>), SNull(<<>>), SVal(<<>>), SVal(<<"a", " ">>),
               SVal(<<"a", "b", "c">>)},
        tx \in {SAbsent(""), SVal("Debit"), SVal("Bogus")},
        p \in {JAbsent, JNum(5)},
        sh \in {JAbsent, JNum(5), JNum(25), JBad},
        pe \in {JAbsent, JNull, JNum(3), JNum(12), JBad},
        mc \in RawConfTuples,
        rb \in {JAbsent, JNum(9 * Tenth)}}

\* rows that vary in their identifiers
IdentityRaw ==
    {RawRow(doc, page, rowid, SVal(<<"a", "b", "c">>), SVal("Credit"), JNum(5), JNum(5),
            JNum(3), AllAbsent, JAbsent) :
        doc \in {SAbsent(""), SVal("other")},
        page \in {JAbsent, JNum(7), JBad},
        rowid \in {JAbsent, JNum(0), JNum(5), JNull}}

WideRaw == ScoringRaw \cup IdentityRaw \cup {NotAnObject}

NarrowRaw ==
    {EmptyRaw,
     [EmptyRaw EXCEPT !.row_id = JNum(0)],
     [EmptyRaw EXCEPT !.row_id = JNum(1)],
     [EmptyRaw EXCEPT !.page_id = JNum(7), !.doc_id = SVal("other")],
     [EmptyRaw EXCEPT !.shillings = JBad],
     NotAnObject}

NoRows == [t |-> "absent", items |-> <<>>]

RowList(items) == [t |-> "list", items |-> items]

FailureKinds == {"error", "no_content", "bad_json", "not_object"}

ExtractFailures == {[kind |-> k, rows |-> NoRows] : k \in FailureKinds}

ExtractObject(rows) == [kind |-> "object", rows |-> rows]

ExtractResponsesWide ==
    ExtractFailures
    \cup {ExtractObject([t |-> k, items |-> <<>>]) :
            k \in {"absent", "empty_iterable", "scalar", "list"}}
    \cup {ExtractObject(RowList(<<r>>)) : r \in WideRaw}
    \cup {ExtractObject(RowList(items)) :
            items \in UNION {[1..n -> NarrowRaw] : n \in 2..MaxRows}}

ExtractResponsesNarrow ==
    {[kind |-> "error", rows |-> NoRows],
     ExtractObject(NoRows),
     ExtractObject(RowList(<<EmptyRaw>>)),
     ExtractObject(RowList(<<EmptyRaw, [EmptyRaw EXCEPT !.row_id = JNum(0)]>>)),
     ExtractObject(RowList(<<[EmptyRaw EXCEPT !.page_id = JNum(7), !.doc_id = SVal("other")]>>)),
     ExtractObject(RowList(<<[EmptyRaw EXCEPT !.shillings = JBad]>>))}

ClassifyResponse(kind, page_type, overview, doc, page) ==
    [kind |-> kind, page_type |-> page_type, financial_structure_overview |-> overview,
     doc_id |-> doc, page_id |-> page]

ClassifyFailures ==
    {ClassifyResponse(k, SAbsent(""), SAbsent(""), SAbsent(""), JAbsent) : k \in FailureKinds}

ClassifyResponsesWide ==
    ClassifyFailures
    \cup {ClassifyResponse("object", pt, ov, doc, page) :
            pt \in {SAbsent(""), SNull("")} \cup {SVal(x) : x \in PageTypes \cup {"Bogus"}},
            ov \in {SAbsent(""), SVal("overview")},
            doc \in {SAbsent(""), SVal("other")},
            page \in {JAbsent, JNum(7), JBad}}

ClassifyResponsesNarrow ==
    {ClassifyResponse("error", SAbsent(""), SAbsent(""), SAbsent(""), JAbsent),
     ClassifyResponse("object", SVal("Sectional_List"), SVal("overview"), SAbsent(""), JAbsent),
     ClassifyResponse("object", SVal("Bogus"), SAbsent(""), SVal("other"), JNum(7))}

PageTexts ==
    {<<>>,
     <<"S", "u", "b", " ", "T", "O", "T", "A", "L">>,
     <<"B", "a", "l", "a", "n", "c", "e">>,
     <<"t", "o", "t", " ", "a", "l">>}

(***************************************************************************)
(* process_document, one service call per step                             *)
(***************************************************************************)

\* process_document(doc, d) is entered: the loop is at its first page
CallProcessDocument(doc, d) ==
    /\ doc_id' = doc
    /\ pages' = d
    /\ todo' = page_order(d)
    /\ pc' = IF Len(d) = 0 THEN "returned" ELSE "classify"
    /\ page_meta' = NoMeta
    /\ all_page_meta' = <<>>
    /\ all_rows' = <<>>
    /\ classify_response' = NoResponse
    /\ extract_response' = NoResponse
    /\ extracted' = NoExtract
    /\ attempts' = <<>>

\* Mutant: a failed classification call is repeated once before the fallback.
ClassifyStep_retrying(Responses) ==
    /\ pc = "classify"
    /\ \E response \in Responses :
        LET llm == classify_page_with_llm(doc_id, Head(todo), TextOf(pages, Head(todo)),
                                          response)
            entry == [call |-> "classify_page", page_id |-> Head(todo),
                      meta |-> llm.meta, failed |-> llm.raised]
            first == attempts = <<>> \/ attempts[Len(attempts)].call # "classify_page"
        IN  /\ classify_response' = response
            /\ attempts' = Append(attempts, entry)
            /\ IF llm.raised /\ first
               THEN UNCHANGED <<pc, page_meta>>
               ELSE /\ pc' = "extract"
                    /\ page_meta' = classify_page(doc_id, Head(todo),
                                                  TextOf(pages, Head(todo)), response)
    /\ UNCHANGED <<doc_id, pages, todo, all_page_meta, all_rows, extract_response, extracted>>

\* process_single_page, step 1: classify_page on the next page
ClassifyStep(Responses) ==
    /\ pc = "classify"
    /\ \E response \in Responses :
        /\ classify_response' = response
        /\ page_meta' = classify_page(doc_id, Head(todo), TextOf(pages, Head(todo)), response)
    /\ attempts' = Append(attempts,
            [call |-> "classify_page", page_id |-> Head(todo), meta |-> page_meta',
             failed |-> classify_page_with_llm(doc_id, Head(todo), TextOf(pages, Head(todo)),
                                               classify_response').raised])
    /\ pc' = "extract"
    /\ UNCHANGED <<doc_id, pages, todo, all_page_meta, all_rows, extract_response, extracted>>

\* process_single_page, step 2: extract_page with the classifier's metadata, then the
\* two appends of process_document; an exception leaves process_document
ExtractStep(Responses) ==
    /\ pc = "extract"
    /\ \E response \in Responses :
        LET result == extract_page(page_meta, response)
        IN  /\ extract_response' = response
            /\ extracted' = [called |-> TRUE, raised |-> result.raised,
                             rows |-> result.rows, meta |-> page_meta]
            /\ attempts' = Append(attempts,
                    [call |-> "extract_page", page_id |-> Head(todo), meta |-> page_meta,
                     failed |-> extract_page_with_llm(page_meta, response).raised])
            /\ IF result.raised
               THEN /\ pc' = "raised"
                    /\ UNCHANGED <<todo, all_page_meta, all_rows>>
               ELSE /\ all_page_meta' = Append(all_page_meta, page_meta)
                    /\ all_rows' = all_rows \o result.rows
                    /\ todo' = Tail(todo)
                    /\ pc' = IF Len(todo) = 1 THEN "returned" ELSE "classify"
    /\ UNCHANGED <<doc_id, pages, page_meta, classify_response>>

(***************************************************************************)
(* SpecPage: process_document on a one-page document, the extraction       *)
(* service answering from the wide set                                     *)
(* SpecClassify: the same, the classification service answering from the   *)
(* wide set                                                                *)
(***************************************************************************)

OnePage(Texts) ==
    /\ ScorerIdle
    /\ BatchIdle
    /\ doc_id = "1704"
    /\ \E p \in 1..MaxPages, t \in Texts : pages = <<[page_id |-> p, text |-> t]>>
    /\ todo = page_order(pages)
    /\ pc = "classify"
    /\ page_meta = NoMeta
    /\ all_page_meta = <<>>
    /\ all_rows = <<>>
    /\ classify_response = NoResponse
    /\ extract_response = NoResponse
    /\ extracted = NoExtract
    /\ attempts = <<>>

InitPage == OnePage({<<>>, <<"S", "u", "b", " ", "T", "O", "T", "A", "L">>})

InitClassify == OnePage(PageTexts)

ClassifyNarrow ==
    /\ run_pc = "stopped"
    /\ ClassifyStep(ClassifyResponsesNarrow)
    /\ UNCHANGED <<scorer_vars, batch_vars>>

ClassifyWide ==
    /\ run_pc = "stopped"
    /\ ClassifyStep(ClassifyResponsesWide)
    /\ UNCHANGED <<scorer_vars, batch_vars>>

ExtractNarrow ==
    /\ run_pc = "stopped"
    /\ ExtractStep(ExtractResponsesNarrow)
    /\ UNCHANGED <<scorer_vars, batch_vars>>

ExtractWide ==
    /\ run_pc = "stopped"
    /\ ExtractStep(ExtractResponsesWide)
    /\ UNCHANGED <<scorer_vars, batch_vars>>

NextPage == ClassifyNarrow \/ ExtractWide

SpecPage == InitPage /\ [][NextPage]_vars

NextClassify == ClassifyWide \/ ExtractNarrow

SpecClassify == InitClassify /\ [][NextClassify]_vars

(***************************************************************************)
(* SpecDoc: process_document on a dict of up to MaxPages pages, inserted   *)
(* in any order                                                            *)
(***************************************************************************)

PageIds == 1..MaxPages

Dicts ==
    {d \in UNION {[1..n -> [page_id : PageIds, text : {<<>>, <<"T", "o", "t", "a", "l">>}]] :
                    n \in 0..MaxPages} :
        \A j, k \in 1..Len(d) : j # k => d[j].page_id # d[k].page_id}

InitDoc ==
    /\ ScorerIdle
    /\ BatchIdle
    /\ doc_id = "1704"
    /\ pages \in Dicts
    /\ todo = page_order(pages)
    /\ pc = IF Len(pages) = 0 THEN "returned" ELSE "classify"
    /\ page_meta = NoMeta
    /\ all_page_meta = <<>>
    /\ all_rows = <<>>
    /\ classify_response = NoResponse
    /\ extract_response = NoResponse
    /\ extracted = NoExtract
    /\ attempts = <<>>

NextDoc == ClassifyNarrow \/ ExtractNarrow

SpecDoc == InitDoc /\ [][NextDoc]_vars

(***************************************************************************)
(* batch.py: Spec, runs of process_all_pdfs_to_excel over one data         *)
(* directory.  A run ends by returning, by an exception, or by the process *)
(* being terminated; the cache files outlive it.                           *)
(***************************************************************************)

MaxRuns == 2

DocNames == <<"1704", "1705">>

\* data/raw holds none, the first or both of the documents, of 1..MaxPages pages each
PdfDirs ==
    UNION {[1..n -> [doc_id : {DocNames[1], DocNames[2]}, n_pages : 1..MaxPages]] :
             n \in 0..Len(DocNames)}

SortedPdfDirs == {d \in PdfDirs : \A k \in 1..Len(d) : d[k].doc_id = DocNames[k]}

CacheKeys == {<<DocNames[k], p>> : k \in 1..Len(DocNames), p \in 1..MaxPages}

NoFile == [exists |-> FALSE, text |-> <<>>]

File(text) == [exists |-> TRUE, text |-> text]

\* what the transcription service returns, stripped
OcrTexts == {<<"T", "o", "t", "a", "l">>}

ClassifyResponsesBatch ==
    {ClassifyResponse("error", SAbsent(""), SAbsent(""), SAbsent(""), JAbsent),
     ClassifyResponse("object", SVal("Sectional_List"), SVal("overview"), SAbsent(""), JAbsent)}

ExtractResponsesBatch ==
    {[kind |-> "error", rows |-> NoRows],
     ExtractObject(RowList(<<[EmptyRaw EXCEPT !.shillings = JBad]>>))}

\* list_doc_ids_from_raw
list_doc_ids_from_raw == [k \in 1..Len(pdfs) |-> pdfs[k].doc_id]

\* export_pdf_pages_as_images(doc): the page ids 1..n of the document, sorted
page_images(doc) ==
    LET k == CHOOSE k \in 1..Len(pdfs) : pdfs[k].doc_id = doc
    IN  [p \in 1..pdfs[k].n_pages |-> p]

\* Mutant: the existence check always fails.
cache_hit_never(key) == FALSE

\* Mutant: the existence check is honoured only by the run that wrote the file.
cache_hit_first_run_only(key) == cache[key].exists /\ runs = 1

\* os.path.exists(cache_path)
cache_hit(key) == cache[key].exists

\* the cache key of the page the OCR loop is at
current_key == <<Head(doc_queue), Head(ocr_todo)>>

\* the memory of a process that has ended
MemoryGone ==
    /\ doc_queue' = <<>>
    /\ ocr_todo' = <<>>
    /\ pages_text' = <<>>
    /\ ocr_text' = <<>>
    /\ pc' = "idle"
    /\ doc_id' = ""
    /\ pages' = <<>>
    /\ todo' = <<>>
    /\ page_meta' = NoMeta
    /\ all_page_meta' = <<>>
    /\ all_rows' = <<>>
    /\ classify_response' = NoResponse
    /\ extract_response' = NoResponse
    /\ extracted' = NoExtract
    /\ attempts' = <<>>

PipelineReset ==
    /\ pc' = "idle"
    /\ doc_id' = ""
    /\ pages' = <<>>
    /\ todo' = <<>>
    /\ page_meta' = NoMeta
    /\ all_page_meta' = <<>>
    /\ all_rows' = <<>>
    /\ classify_response' = NoResponse
    /\ extract_response' = NoResponse
    /\ extracted' = NoExtract
    /\ attempts' = <<>>

Init ==
    /\ ScorerIdle
    /\ PipelineIdle
    /\ pdfs \in SortedPdfDirs
    /\ cache = [key \in CacheKeys |-> NoFile]
    /\ run_pc = "stopped"
    /\ runs = 0
    /\ doc_queue = <<>>
    /\ ocr_todo = <<>>
    /\ pages_text = <<>>
    /\ ocr_text = <<>>
    /\ ocr_calls = [key \in CacheKeys |-> 0]
    /\ run_calls = 0
    /\ all_pages_meta = <<>>
    /\ batch_rows = <<>>

\* process_all_pdfs_to_excel starts: no document is fatal, else the first document's
\* ocr_pdf_to_pages_cached is entered
StartRun ==
    /\ run_pc \in {"stopped", "exported", "failed"}
    /\ runs < MaxRuns
    /\ runs' = runs + 1
    /\ run_calls' = 0
    /\ all_pages_meta' = <<>>
    /\ batch_rows' = <<>>
    /\ ocr_text' = <<>>
    /\ pages_text' = <<>>
    /\ PipelineReset
    /\ IF Len(list_doc_ids_from_raw) = 0
       THEN /\ run_pc' = "failed"
            /\ doc_queue' = <<>>
            /\ ocr_todo' = <<>>
       ELSE /\ run_pc' = "ocr_loop"
            /\ doc_queue' = list_doc_ids_from_raw
            /\ ocr_todo' = page_images(Head(list_doc_ids_from_raw))
    /\ UNCHANGED <<scorer_vars, pdfs, cache, ocr_calls>>

\* the cache file exists: read it, no call
OcrCacheHit ==
    /\ run_pc = "ocr_loop"
    /\ ocr_todo # <<>>
    /\ cache_hit(current_key)
    /\ pages_text' = Append(pages_text,
                            [page_id |-> Head(ocr_todo), text |-> cache[current_key].text])
    /\ ocr_todo' = Tail(ocr_todo)
    /\ UNCHANGED <<scorer_vars, pipeline_vars, pdfs, cache, run_pc, runs, doc_queue,
                   ocr_text, ocr_calls, run_calls, all_pages_meta, batch_rows>>

\* no cache file: ocr_page_with_gpt is called and answers with a text
OcrCallSucceeds ==
    /\ run_pc = "ocr_loop"
    /\ ocr_todo # <<>>
    /\ ~cache_hit(current_key)
    /\ ocr_calls' = [ocr_calls EXCEPT ![current_key] = @ + 1]
    /\ run_calls' = run_calls + 1
    /\ \E text \in OcrTexts :
        /\ ocr_text' = text
        /\ pages_text' = Append(pages_text, [page_id |-> Head(ocr_todo), text |-> text])
    /\ run_pc' = "ocr_called"
    /\ UNCHANGED <<scorer_vars, pipeline_vars, pdfs, cache, runs, doc_queue, ocr_todo,
                   all_pages_meta, batch_rows>>

\* no cache file: ocr_page_with_gpt is called and raises (service error or no
\* content), which ends the run
OcrCallFails ==
    /\ run_pc = "ocr_loop"
    /\ ocr_todo # <<>>
    /\ ~cache_hit(current_key)
    /\ ocr_calls' = [ocr_calls EXCEPT ![current_key] = @ + 1]
    /\ run_calls' = run_calls + 1
    /\ run_pc' = "failed"
    /\ MemoryGone
    /\ UNCHANGED <<scorer_vars, pdfs, cache, runs, all_pages_meta, batch_rows>>

\* open(cache_path, "w") creates the file, empty
OcrOpen ==
    /\ run_pc = "ocr_called"
    /\ cache' = [cache EXCEPT ![current_key] = File(<<>>)]
    /\ run_pc' = "ocr_opened"
    /\ UNCHANGED <<scorer_vars, pipeline_vars, pdfs, runs, doc_queue, ocr_todo, pages_text,
                   ocr_text, ocr_calls, run_calls, all_pages_meta, batch_rows>>

\* f.write(page_text) and the close of the with block
OcrWrite ==
    /\ run_pc = "ocr_opened"
    /\ cache' = [cache EXCEPT ![current_key] = File(ocr_text)]
    /\ ocr_todo' = Tail(ocr_todo)
    /\ run_pc' = "ocr_loop"
    /\ UNCHANGED <<scorer_vars, pipeline_vars, pdfs, runs, doc_queue, pages_text,
                   ocr_text, ocr_calls, run_calls, all_pages_meta, batch_rows>>

\* ocr_pdf_to_pages_cached returns and process_document is called with its dict
OcrReturn ==
    /\ run_pc = "ocr_loop"
    /\ ocr_todo = <<>>
    /\ CallProcessDocument(Head(doc_queue), pages_text)
    /\ run_pc' = "pipeline"
    /\ UNCHANGED <<scorer_vars, pdfs, cache, runs, doc_queue, ocr_todo, pages_text,
                   ocr_text, ocr_calls, run_calls, all_pages_meta, batch_rows>>

ClassifyBatch ==
    /\ run_pc = "pipeline"
    /\ ClassifyStep(ClassifyResponsesBatch)
    /\ UNCHANGED <<scorer_vars, batch_vars>>

ExtractBatch ==
    /\ run_pc = "pipeline"
    /\ ExtractStep(ExtractResponsesBatch)
    /\ pc' # "raised"
    /\ UNCHANGED <<scorer_vars, batch_vars>>

\* extract_page raises: nothing catches it, the run ends
ExtractBatchRaises ==
    /\ run_pc = "pipeline"
    /\ pc = "extract"
    /\ \E response \in ExtractResponsesBatch : extract_page(page_meta, response).raised
    /\ run_pc' = "failed"
    /\ MemoryGone
    /\ UNCHANGED <<scorer_vars, pdfs, cache, runs, ocr_calls, run_calls,
                   all_pages_meta, batch_rows>>

\* process_document has returned: the two extends, then the next document or the export
DocumentDone ==
    /\ run_pc = "pipeline"
    /\ pc = "returned"
    /\ all_pages_meta' = all_pages_meta \o all_page_meta
    /\ batch_rows' = batch_rows \o all_rows
    /\ doc_queue' = Tail(doc_queue)
    /\ pages_text' = <<>>
    /\ PipelineReset
    /\ IF Len(doc_queue) = 1
       THEN /\ run_pc' = "exported"
            /\ ocr_todo' = <<>>
       ELSE /\ run_pc' = "ocr_loop"
            /\ ocr_todo' = page_images(doc_queue[2])
    /\ UNCHANGED <<scorer_vars, pdfs, cache, runs, ocr_text, ocr_calls, run_calls>>

\* the process is terminated in the middle of a run
Terminate ==
    /\ run_pc \in {"ocr_loop", "ocr_called", "ocr_opened", "pipeline"}
    /\ run_pc' = "stopped"
    /\ MemoryGone
    /\ all_pages_meta' = <<>>
    /\ batch_rows' = <<>>
    /\ UNCHANGED <<scorer_vars, pdfs, cache, runs, ocr_calls, run_calls>>

Next ==
    \/ StartRun
    \/ OcrCacheHit
    \/ OcrCallSucceeds
    \/ OcrCallFails
    \/ OcrOpen
    \/ OcrWrite
    \/ OcrReturn
    \/ ClassifyBatch
    \/ ExtractBatch
    \/ ExtractBatchRaises
    \/ DocumentDone
    \/ Terminate

Spec == Init /\ [][Next]_vars

(***************************************************************************)
(* Properties                                                              *)
(***************************************************************************)

\* extract_page has been called on the current page and has returned
ExtractReturned == extracted.called /\ ~extracted.raised

\* the positions of the returned rows
Returned == IF ExtractReturned THEN 1..Len(extracted.rows) ELSE {}

\* a float in [0.0, 1.0]
InUnit(f) == ~f.nan /\ 0 <= f.v /\ f.v <= One

\* the response is a JSON object whose `rows` holds no element
RowsEmptyOrAbsent(response) ==
    /\ response.kind = "object"
    /\ response.rows.t \in {"absent", "empty_iterable", "list"}
    /\ Len(response.rows.items) = 0

\* C1 as stated: whenever extract_page returns, it returns at least one row.
C1_AtLeastOneRow == ExtractReturned => Len(extracted.rows) >= 1

\* C1 amended: whenever extract_page returns, the list is empty exactly when the
\* service answered with a JSON object whose `rows` is absent or empty; every
\* failed call and every malformed response gives the one fallback row.
C1_EmptyOnlyForEmptyRows ==
    ExtractReturned =>
        /\ (Len(extracted.rows) = 0) <=> RowsEmptyOrAbsent(extract_response)
        /\ extract_response.kind \in FailureKinds => Len(extracted.rows) = 1

C1_Witness ==
    /\ ExtractReturned
    /\ extract_response.kind = "bad_json"
    /\ Len(extracted.rows) = 1
    /\ extracted.rows[1].description \in {DummyBalanceDescription, DummyListDescription}

\* C2 as stated: extract_page never raises, whatever the service answered.
C2_NeverRaises == extracted.called => ~extracted.raised

\* C3: once classify_page has run, page_meta holds the four fields, page_type is one
\* of the three page types, and a failed call or an unusable response gives the
\* keyword heuristic's answer for the page that was passed in.
C3_ClassifyWellFormed ==
    classify_response # NoResponse =>
        /\ DOMAIN page_meta = {"doc_id", "page_id", "page_type", "financial_structure_overview"}
        /\ page_meta.page_type \in PageTypes
        /\ page_meta.page_id \in Int
        /\ page_meta.doc_id \in {doc_id, "other"}
        /\ (classify_response.kind # "object" \/ classify_response.page_id.t \in {"bad", "null"}) =>
              /\ page_meta.doc_id = doc_id
              /\ page_meta.page_id \in Keys(pages)
              /\ page_meta.page_type \in {"Full_Balance_Sheet", "Sectional_List"}
              /\ page_meta.financial_structure_overview
                     \in {FallbackBalanceOverview, FallbackListOverview}

C3_Witness ==
    /\ classify_response.kind = "bad_json"
    /\ pages[1].text = <<>>
    /\ page_meta.page_type = "Sectional_List"

\* C4 as stated: both final confidences of every returned row lie in [0.0, 1.0].
C4_ConfidencesInUnitInterval ==
    \A k \in Returned :
        /\ InUnit(extracted.rows[k].rule_based_confidence)
        /\ InUnit(extracted.rows[k].row_confidence)

C6_ConfidencesDerived ==
    \A k \in Returned :
        LET r == extracted.rows[k]
        IN  /\ r.rule_based_confidence = compute_rule_based_confidence(r, PyNone)
            /\ r.row_confidence = compute_row_confidence(r, T(4), PyNone)

C6_Witness ==
    /\ ExtractReturned
    /\ extract_response.kind = "object"
    /\ Len(extracted.rows) = 1
    /\ extract_response.rows.items[1].rule_based_confidence = JNum(9 * Tenth)
    /\ extracted.rows[1].rule_based_confidence = T(8)
    /\ extracted.rows[1].row_confidence # T(9)

\* the penalty table of the specification, in tenths, for a description as given
TablePenalties(description, r, typical_max_pounds) ==
      (IF Len(description) = 0 THEN 4 ELSE 0)
    + (IF Len(description) > 0 /\ Len(description) < 3 THEN 2 ELSE 0)
    + (IF r.shillings.t = "int" /\ (r.shillings.n < 0 \/ r.shillings.n > 19) THEN 2 ELSE 0)
    + (IF r.pence.t = "int" /\ (r.pence.n < 0 \/ r.pence.n > 11) THEN 2 ELSE 0)
    + (IF typical_max_pounds.t = "int" /\ r.pounds.t = "int"
          /\ r.pounds.n > 3 * typical_max_pounds.n THEN 2 ELSE 0)
    + (IF r.transaction_type \notin {"Debit", "Credit", "Unknown"} THEN 3 ELSE 0)
    + (IF r.pounds = PyNone /\ r.shillings = PyNone /\ r.pence = PyNone THEN 3 ELSE 0)

\* 1.0 minus p tenths, clamped to [0.0, 1.0]
OneMinus(p) == IF p >= 10 THEN F(0) ELSE F(One - p * Tenth)

RuleScored == sc_pc \in {"rule_done", "done"}

\* C7 as stated: the rule score is 1.0 minus the table's penalties, the two
\* description penalties judged on the description as it is in the row.
C7_TableOnRawDescription ==
    RuleScored =>
        sc_rule = OneMinus(TablePenalties(sc_row.description, sc_row, sc_typical_max_pounds))

\* C7 amended: the rule score is 1.0 minus the table's penalties, clamped once, the
\* two description penalties judged on the description stripped of surrounding
\* whitespace; empty description, no monetary field and Unknown score 0.3, and
\* shillings = 25 in an otherwise valid row scores 0.8.
C7_TableOnStrippedDescription ==
    RuleScored =>
        /\ sc_rule = OneMinus(TablePenalties(Strip(sc_row.description), sc_row,
                                             sc_typical_max_pounds))
        /\ (/\ sc_row.description = <<>>
            /\ sc_row.pounds = PyNone /\ sc_row.shillings = PyNone /\ sc_row.pence = PyNone
            /\ sc_row.transaction_type = "Unknown") => sc_rule = T(3)
        /\ (/\ sc_row.shillings = PyInt(25)
            /\ sc_row.description = <<"a", "a", "a">>
            /\ sc_row.transaction_type \in {"Debit", "Credit", "Unknown"}
            /\ sc_row.pence \in {PyNone, PyInt(3)}
            /\ sc_row.pounds \in {PyNone, PyInt(5)}) => sc_rule = T(8)

\* penalties of 1.1 in all, on a description that is short only once stripped
C7_Witness ==
    /\ sc_pc = "rule_done"
    /\ sc_row.description = <<" ", "a", " ">>
    /\ TablePenalties(Strip(sc_row.description), sc_row, sc_typical_max_pounds) = 11
    /\ sc_rule = F(0)

RowScored == sc_pc = "done"

\* the exact mean of the six model confidences of the row scored
SixMean ==
    IF \E f \in {sc_row.model_conf_description, sc_row.model_conf_transaction_type,
                 sc_row.model_conf_pounds, sc_row.model_conf_shillings,
                 sc_row.model_conf_pence, sc_row.model_conf_pence_fraction} : f.nan
    THEN NaN
    ELSE F((sc_row.model_conf_description.v + sc_row.model_conf_transaction_type.v
            + sc_row.model_conf_pounds.v + sc_row.model_conf_shillings.v
            + sc_row.model_conf_pence.v + sc_row.model_conf_pence_fraction.v) \div 6)

\* C8 as stated: with rule_weight 1.0 the row confidence is the rule score, with
\* rule_weight 0.0 it is the mean of the six model confidences (read on the rows
\* whose six model confidences are numbers).
C8_EndpointsExact ==
    (RowScored /\ ~SixMean.nan) =>
        /\ sc_rule_weight = T(10) => sc_combined = sc_rule
        /\ sc_rule_weight = T(0) => sc_combined = SixMean

\* C8 amended: for a row whose six model confidences are finite numbers, with
\* rule_weight 1.0 the row confidence is the rule score, and with rule_weight 0.0
\* it is the mean of the six clamped to [0.0, 1.0], which is the mean itself when
\* the mean lies in [0.0, 1.0].
C8_EndpointsClamped ==
    (RowScored /\ ~SixMean.nan) =>
        /\ sc_rule_weight = T(10) => sc_combined = sc_rule
        /\ sc_rule_weight = T(0) =>
              sc_combined = (IF SixMean.v < 0 THEN F(0)
                             ELSE IF SixMean.v > One THEN F(One) ELSE SixMean)
        /\ (sc_rule_weight = T(0) /\ InUnit(SixMean)) => sc_combined = SixMean

C8_Witness ==
    /\ RowScored
    /\ sc_rule_weight = T(0)
    /\ SixMean = F(450)
    /\ sc_combined = F(450)
    /\ sc_rule # sc_combined

\* C9 as stated: process_document returns metadata with strictly increasing page ids
\* and rows with non-decreasing page ids.
C9_AscendingPageIds ==
    pc = "returned" =>
        /\ \A j, k \in 1..Len(all_page_meta) :
              j < k => all_page_meta[j].page_id < all_page_meta[k].page_id
        /\ \A j, k \in 1..Len(all_rows) :
              j < k => all_rows[j].page_id <= all_rows[k].page_id

BeingWritten(key) == run_pc = "ocr_opened" /\ key = current_key

\* C11: the cache is write-once and survives termination.  In every step, a file
\* that exists keeps existing; a file that exists and is not between its own open
\* and write keeps its content; a step that ends the run (termination, a failing
\* transcription call, an exception of the pipeline) changes no file; and the
\* transcription service is called only for a page whose file is missing.
C11_WriteOnceSurvivesTermination ==
    [][\A key \in CacheKeys :
          /\ cache[key].exists => cache'[key].exists
          /\ (cache[key].exists /\ ~BeingWritten(key)) => cache'[key] = cache[key]
          /\ run_pc' \in {"stopped", "failed"} => cache'[key] = cache[key]
          /\ ocr_calls'[key] # ocr_calls[key] => ~cache[key].exists
      ]_vars

\* the first run wrote page 1 and ended in its call for page 2; the second run read
\* page 1 from its file and transcribed page 2 only
C11_Witness ==
    /\ runs = 2
    /\ run_pc = "pipeline"
    /\ run_calls = 1
    /\ Len(pages_text) = 2
    /\ ocr_calls[<<Head(doc_queue), 1>>] = 1
    /\ ocr_calls[<<Head(doc_queue), 2>>] = 2
    /\ \A k \in 1..2 : cache[<<Head(doc_queue), k>>] = File(<<"T", "o", "t", "a", "l">>)

\* the returned PageMetadata entries that carry the join key of row `r`
MetaOf(r) ==
    {k \in 1..Len(all_page_meta) :
        /\ all_page_meta[k].doc_id = r.doc_id
        /\ all_page_meta[k].page_id = r.page_id}

\* C12 as stated: process_document returns exactly one PageMetadata per input
\* page, carrying the doc_id and the page_id the page was processed under, and the
\* join key (doc_id, page_id) of every returned row is the key of exactly one
\* returned PageMetadata.
C12_OneMetadataPerPageAndJoinKey ==
    pc = "returned" =>
        /\ Len(all_page_meta) = Len(pages)
        /\ \A k \in 1..Len(all_page_meta) :
              /\ all_page_meta[k].doc_id = doc_id
              /\ all_page_meta[k].page_id = page_order(pages)[k]
        /\ \A j \in 1..Len(all_rows) : Cardinality(MetaOf(all_rows[j])) = 1

\* C12, the row half alone, for metadata that kept the caller's identifiers: the
\* join key of every returned row is the key of exactly one returned PageMetadata.
C12_RowsJoinOwnPage ==
    (/\ pc = "returned"
     /\ \A k \in 1..Len(all_page_meta) :
           /\ all_page_meta[k].doc_id = doc_id
           /\ all_page_meta[k].page_id = page_order(pages)[k]) =>
        \A j \in 1..Len(all_rows) : Cardinality(MetaOf(all_rows[j])) = 1

\* C13 as stated: no two rows returned by one extract_page call carry the same
\* row_id.
C13_RowIdUnique ==
    \A j, k \in Returned :
        j # k => extracted.rows[j].row_id # extracted.rows[k].row_id

\* C13 for responses that leave row_id out of every row: the row_id of each
\* returned row is its position in the array, counted from 0.
C13_DefaultRowIdIsPosition ==
    (/\ ExtractReturned
     /\ extract_response.kind = "object"
     /\ \A k \in 1..Len(extract_response.rows.items) :
           /\ extract_response.rows.items[k] # NotAnObject
           /\ extract_response.rows.items[k].row_id = JAbsent) =>
        \A k \in Returned : extracted.rows[k].row_id = k - 1

\* classify_page has returned for a parseable response (a JSON object) whose
\* page_type is absent or is not one of the 3 valid values
InvalidPageTypeAnswered ==
    /\ classify_response.kind = "object"
    /\ ~(classify_response.page_type.t = "str" /\ classify_response.page_type.s \in PageTypes)

\* the metadata is the service's, normalised: page_type Unknown, and the overview
\* is not one of the two texts of the keyword heuristic
NormalisedToUnknown ==
    /\ page_meta.page_type = "Unknown"
    /\ page_meta.financial_structure_overview
          \notin {FallbackBalanceOverview, FallbackListOverview}

\* C14 as stated: a parseable response whose page_type is absent or invalid gives
\* page_type = Unknown, and the keyword heuristic is not used for it.
C14_InvalidTypeBecomesUnknown == InvalidPageTypeAnswered => NormalisedToUnknown

\* C14 for responses whose echoed page_id is absent or converts to an integer: the
\* same conclusion.
C14_InvalidTypeBecomesUnknownWhenIdConverts ==
    (InvalidPageTypeAnswered /\ ~IntFieldRaises(classify_response.page_id)) =>
        NormalisedToUnknown

\* the page the k-th call of process_single_page belongs to
PageOfAttempt(k) == page_order(pages)[(k + 1) \div 2]

\* the metadata of the keyword heuristic for page `p`
IsFallbackMeta(m, p) ==
    /\ m.doc_id = doc_id
    /\ m.page_id = p
    /\ m.financial_structure_overview \in {FallbackBalanceOverview, FallbackListOverview}

\* C15: while process_document runs and when it has returned or raised, the calls
\* made so far alternate classify_page, extract_page, one of each per page and in
\* the order of the pages: the k-th call belongs to page (k+1) div 2; a
\* classification whose service call failed gave the metadata of the keyword
\* heuristic in that same attempt; each extract_page received the metadata its
\* page's classify_page returned; a page's extraction is done before the next
\* page's classification; and a returned document had two calls per page.
C15_OneClassifyThenOneExtract ==
    pc \in {"classify", "extract", "returned", "raised"} =>
        LET n == Len(attempts)
            done == Len(pages) - Len(todo)
        IN  /\ n <= 2 * Len(pages)
            /\ \A k \in 1..n :
                  /\ attempts[k].call = (IF k % 2 = 1 THEN "classify_page" ELSE "extract_page")
                  /\ attempts[k].page_id = PageOfAttempt(k)
                  /\ (k % 2 = 1 /\ attempts[k].failed) =>
                        IsFallbackMeta(attempts[k].meta, attempts[k].page_id)
                  /\ k % 2 = 0 => attempts[k].meta = attempts[k - 1].meta
            /\ pc = "classify" => n = 2 * done
            /\ pc = "extract" => n = 2 * done + 1 /\ attempts[n].meta = page_meta
            /\ pc = "raised" => n = 2 * done + 2
            /\ pc = "returned" => n = 2 * Len(pages) /\ todo = <<>>

\* a two-page document, inserted page 2 first, has returned; the classification
\* call of page 1 failed and so did the extraction call of page 2
C15_Witness ==
    /\ pc = "returned"
    /\ Len(pages) = 2
    /\ pages[1].page_id = 2
    /\ Len(attempts) = 4
    /\ attempts[1].failed
    /\ attempts[4].failed
    /\ ~attempts[3].failed

\* C16 as stated: every cache file that exists and is not between its own open and
\* write holds the complete text of one successful transcription call, and the dict
\* handed to process_document holds only such texts.
C16_EntriesAreCompleteTranscriptions ==
    /\ \A key \in CacheKeys :
          (cache[key].exists /\ ~BeingWritten(key)) =>
              /\ cache[key].text \in OcrTexts
              /\ ocr_calls[key] >= 1
    /\ run_pc = "pipeline" => \A k \in 1..Len(pages) : pages[k].text \in OcrTexts

\* C16, second half: a step in which the transcription call fails creates no file.
C16_FailedCallCreatesNoEntry ==
    [][(run_pc = "ocr_loop" /\ run_pc' = "failed") => cache' = cache]_vars

====
